---- MODULE Spec2Model ----
(***************************************************************************)
(* Model of chanlun-pro's DolphinDB storage layer (db_dolphindb.py) and of *)
(* its migration tool (tools/migrate_to_dolphindb.py).                     *)
(*                                                                         *)
(* Strings are TLA+ strings, Python lists are sequences, Python objects    *)
(* and dicts are records (an attribute or key that is absent is absent     *)
(* from the record's DOMAIN), and an optional argument is <<>> for None    *)
(* and <<x>> for the value x.                                              *)
(***************************************************************************)
EXTENDS Integers, Sequences, FiniteSets, TLC

\* ------------------------------------------------------------------------
\* Bounds of the model
\* ------------------------------------------------------------------------
MaxRows == 2        \* rows the engine holds over all bar tables
MaxBatch == 2       \* bars in one klines_insert call
MaxDt == 2          \* timestamps are 0..MaxDt
MaxLimit == 1       \* limit arguments are None or 0..MaxLimit
TicksPerDay == 2    \* timestamps of one calendar day: day d is d*TicksPerDay..(d+1)*TicksPerDay-1

\* ------------------------------------------------------------------------
\* Python / engine helpers
\* ------------------------------------------------------------------------
None == <<>>
Some(x) == <<x>>

\* getattr(obj, name, default)
getattr(obj, name, default) == IF name \in DOMAIN obj THEN obj[name] ELSE default

\* str.replace(old, new) for a one-character old
RECURSIVE replace(_, _, _)
replace(s, old, new) ==
    IF Len(s) = 0 THEN ""
    ELSE (IF Head(s) = old THEN new ELSE Head(s)) \o replace(Tail(s), old, new)

\* Market.FUTURES.value
FUTURES == "futures"

\* ------------------------------------------------------------------------
\* State
\* ------------------------------------------------------------------------
VARIABLES
    tables,     \* engine: bar table name -> [hasP, rows]; DOMAIN = existing tables
    cl_cache,   \* engine: the rows [k, v, expire] of table cl_cache
    cl_stock_info,  \* engine: the rows of table cl_stock_info
    now,        \* the clock, int(time.time())
    call,       \* the last store call: its name, its arguments, the branch it took
    ret,        \* the last store call's return value
    source,     \* the legacy database: its tables [name, rows, readable], in catalog order
    engine_accepts, \* None, or Some(n): the engine rejects the bar write after n more
    args,       \* the arguments of the running migration: market, codes, batch_size, dry_run
    pc,         \* where the migration tool is
    results,    \* migrate_market's results list
    todo,       \* the legacy tables migrate_market has still to migrate
    unit,       \* None, or Some of the bar unit being written: its klines and counters
    prev,       \* None, or Some of the previous invocation: its args, results and end
    runs,       \* invocations started so far
    exit_code,  \* None while the tool runs, then Some(its exit status)
    reads,      \* the legacy tables the running invocation has queried for rows
    summary,    \* None, or Some of the summary migrate_market printed
    inflight    \* caller -> None, or Some of the store call the caller is inside

storeVars == <<tables, cl_cache, cl_stock_info>>

migVars == <<source, engine_accepts, args, pc, results, todo, unit, prev, runs, exit_code,
             reads, summary>>

vars == <<tables, cl_cache, cl_stock_info, now, call, ret, migVars, inflight>>

\* ------------------------------------------------------------------------
\* Inputs
\* ------------------------------------------------------------------------
\* the callers that use the store at the same time
Callers == {"c1", "c2"}

Markets == {"a", FUTURES}
Codes == {"600000.SH"}
Frequencys == {"d"}

\* A KLine object as a caller builds it (test_dolphindb.py, _generate_test_klines)
KLine(code, f, dt, x) ==
    [code |-> code, dt |-> dt, f |-> f,
     o |-> x, c |-> x + 1, h |-> x + 2, l |-> x - 1, v |-> 100 + x, a |-> 200 + x]

\* the same object with a position (open interest) attribute
WithP(k, p) == [n \in DOMAIN k \cup {"p"} |-> IF n = "p" THEN p ELSE k[n]]

KLineInputs(code, f) ==
    {KLine(code, f, dt, 10 + dt) : dt \in 0..MaxDt}
        \cup {WithP(KLine(code, f, 1, 20), 7)}

KLineLists(code, f) ==
    UNION {[1..n -> KLineInputs(code, f)] : n \in 0..MaxBatch}

\* ------------------------------------------------------------------------
\* Schema catalog
\* ------------------------------------------------------------------------
\* a klines_table_name that leaves the dots of the code in place
klines_table_name_keeps_dots(market, stock_code, frequency) ==
    market \o "_" \o stock_code \o "_" \o frequency

\* DolphinDB.klines_table_name
klines_table_name(market, stock_code, frequency) ==
    market \o "_" \o replace(stock_code, ".", "_") \o "_" \o frequency

\* engine primitives used by the scripts
existsTable(tbls, name) == name \in DOMAIN tbls

dropTable(tbls, name) == [n \in DOMAIN tbls \ {name} |-> tbls[n]]

createTable(tbls, name, hasP) ==
    [n \in DOMAIN tbls \cup {name} |->
        IF n = name THEN [hasP |-> hasP, rows |-> <<>>] ELSE tbls[n]]

\* the script of DolphinDB.create_klines_table, run on the engine state
create_klines_table_script(tbls, market, stock_code, frequency) ==
    LET table_name == klines_table_name(market, stock_code, frequency)
        dropped == IF existsTable(tbls, table_name)
                   THEN dropTable(tbls, table_name) ELSE tbls
    IN  createTable(dropped, table_name, market = FUTURES)

TotalRows(tbls) ==
    LET names == DOMAIN tbls
        RECURSIVE sum(_)
        sum(S) == IF S = {} THEN 0
                  ELSE LET n == CHOOSE n \in S : TRUE
                       IN  Len(tbls[n].rows) + sum(S \ {n})
    IN  sum(names)

\* ------------------------------------------------------------------------
\* KLine store
\* ------------------------------------------------------------------------
\* DolphinDB.create_klines_table
create_klines_table(market, stock_code, frequency) ==
    /\ tables' = create_klines_table_script(tables, market, stock_code, frequency)
    /\ call' = [op |-> "create_klines_table", market |-> market,
                stock_code |-> stock_code, frequency |-> frequency]
    /\ ret' = None
    /\ UNCHANGED <<cl_cache, cl_stock_info, now, migVars, inflight>>

\* mutant of data_dict: the position column is filled with the default only
data_dict_p_default(market, klines) ==
    [i \in 1..Len(klines) |->
        LET k == klines[i]
            row == [code |-> k.code, dt |-> k.dt, f |-> k.f, o |-> k.o, c |-> k.c,
                    h |-> k.h, l |-> k.l, v |-> k.v, a |-> k.a]
        IN  IF market = FUTURES THEN WithP(row, 0) ELSE row]

\* data_dict of klines_insert: one row per object, column p for futures only
data_dict(market, klines) ==
    [i \in 1..Len(klines) |->
        LET k == klines[i]
            row == [code |-> k.code, dt |-> k.dt, f |-> k.f, o |-> k.o, c |-> k.c,
                    h |-> k.h, l |-> k.l, v |-> k.v, a |-> k.a]
        IN  IF market = FUTURES THEN WithP(row, getattr(k, "p", 0)) ELSE row]

\* an insert that replaces the stored rows whose dt the frame holds
insert_into_upsert(tbls, name, df) ==
    [tbls EXCEPT ![name].rows =
        SelectSeq(@, LAMBDA r : \A i \in 1..Len(df) : df[i].dt # r.dt) \o df]

\* "insert into T select * from <uploaded frame>": the frame's columns are the table's
insert_into(tbls, name, df) ==
    [tbls EXCEPT ![name].rows = @ \o df]

\* the engine state klines_insert leaves
klines_insert_result(tbls, market, stock_code, frequency, klines) ==
    IF klines = <<>> THEN tbls
    ELSE LET table_name == klines_table_name(market, stock_code, frequency)
             ensured == IF ~existsTable(tbls, table_name)
                        THEN create_klines_table_script(tbls, market, stock_code, frequency)
                        ELSE tbls
         IN  insert_into(ensured, table_name, data_dict(market, klines))

\* DolphinDB.klines_insert
klines_insert(market, stock_code, frequency, klines) ==
    /\ TotalRows(tables) + Len(klines) <= MaxRows
    /\ tables' = klines_insert_result(tables, market, stock_code, frequency, klines)
    /\ call' = [op |-> "klines_insert", market |-> market,
                stock_code |-> stock_code, frequency |-> frequency, klines |-> klines,
                created |-> klines # <<>> /\ ~existsTable(tables,
                                klines_table_name(market, stock_code, frequency))]
    /\ ret' = None
    /\ UNCHANGED <<cl_cache, cl_stock_info, now, migVars, inflight>>

\* datetime.strftime('%Y.%m.%d'): the calendar day of a timestamp
strftime_date(d) == d \div TicksPerDay

\* a DATE literal compared with the DATETIME column dt: the day's first instant
date_as_datetime(day) == day * TicksPerDay

\* the where clause of klines_query
where_clause(row, start_date, end_date) ==
    /\ start_date # None => row.dt >= date_as_datetime(strftime_date(start_date[1]))
    /\ end_date # None => row.dt <= date_as_datetime(strftime_date(end_date[1]))

\* mutant of order_by_dt: the order by clause is left out
order_by_dt_missing(rows, order) == {rows}

\* "order by dt <order>": every arrangement of the rows that is sorted by dt
order_by_dt(rows, order) ==
    LET n == Len(rows)
        arranged == {[i \in 1..n |-> rows[p[i]]] : p \in Permutations(1..n)}
        sorted(s) == \A i \in 1..n - 1 :
                        IF order = "asc" THEN s[i].dt <= s[i + 1].dt
                        ELSE s[i].dt >= s[i + 1].dt
    IN  {s \in arranged : sorted(s)}

\* "limit <limit>" when limit is truthy (neither None nor 0)
limit_clause(rows, limit) ==
    IF limit # None /\ limit[1] # 0
    THEN SubSeq(rows, 1, IF limit[1] < Len(rows) THEN limit[1] ELSE Len(rows))
    ELSE rows

\* the KLine objects klines_query builds from a result
to_klines(market, result) ==
    [i \in 1..Len(result) |->
        LET r == result[i]
            kline == [code |-> r.code, dt |-> r.dt, f |-> r.f, o |-> r.o, c |-> r.c,
                      h |-> r.h, l |-> r.l, v |-> r.v, a |-> r.a]
        IN  IF market = FUTURES /\ "p" \in DOMAIN r THEN WithP(kline, r.p) ELSE kline]

\* a klines_query that sends its select to the engine without looking for the table
klines_query_result_unchecked(tbls, market, stock_code, frequency, start_date, end_date, limit, order) ==
    LET table_name == klines_table_name(market, stock_code, frequency)
    IN  IF ~existsTable(tbls, table_name) THEN {[error |-> "table not found"]}
        ELSE LET selected == SelectSeq(tbls[table_name].rows,
                                       LAMBDA r : where_clause(r, start_date, end_date))
             IN  {to_klines(market, limit_clause(s, limit)) : s \in order_by_dt(selected, order)}

\* every list klines_query can return on the engine state tbls
klines_query_result(tbls, market, stock_code, frequency, start_date, end_date, limit, order) ==
    LET table_name == klines_table_name(market, stock_code, frequency)
    IN  IF ~existsTable(tbls, table_name) THEN {<<>>}
        ELSE LET selected == SelectSeq(tbls[table_name].rows,
                                       LAMBDA r : where_clause(r, start_date, end_date))
             IN  {to_klines(market, limit_clause(s, limit)) : s \in order_by_dt(selected, order)}

\* DolphinDB.klines_query
klines_query(market, stock_code, frequency, start_date, end_date, limit, order) ==
    /\ ret' \in klines_query_result(tables, market, stock_code, frequency,
                                    start_date, end_date, limit, order)
    /\ call' = [op |-> "klines_query", market |-> market,
                stock_code |-> stock_code, frequency |-> frequency]
    /\ UNCHANGED <<tables, cl_cache, cl_stock_info, now, migVars, inflight>>

\* a NULL cell of a DATETIME column as the driver hands it to Python: a value
\* of its own, which is not None
NaT == [null |-> "NaT"]

\* result['max_dt'][0] of "select max(dt) as max_dt from T": the aggregate
\* yields one row, and over no rows its cell is NULL
max_dt(rows) ==
    IF rows = <<>> THEN NaT
    ELSE Some(CHOOSE d \in {rows[i].dt : i \in 1..Len(rows)} :
                 \A i \in 1..Len(rows) : rows[i].dt <= d)

\* what query_klines_last_datetime returns on the engine state tbls
query_klines_last_datetime_result(tbls, market, stock_code, frequency) ==
    LET table_name == klines_table_name(market, stock_code, frequency)
    IN  IF ~existsTable(tbls, table_name) THEN None
        ELSE max_dt(tbls[table_name].rows)

\* DolphinDB.query_klines_last_datetime
query_klines_last_datetime(market, stock_code, frequency) ==
    LET table_name == klines_table_name(market, stock_code, frequency)
    IN  /\ ret' = query_klines_last_datetime_result(tables, market, stock_code, frequency)
        /\ call' = [op |-> "query_klines_last_datetime", market |-> market,
                    stock_code |-> stock_code, frequency |-> frequency]
        /\ UNCHANGED <<tables, cl_cache, cl_stock_info, now, migVars, inflight>>

\* a delete_klines that removes the tables of the code in every market
delete_klines_result_all_markets(tbls, market, stock_code, frequency) ==
    [n \in {t \in DOMAIN tbls : \A m \in Markets :
                                  t # klines_table_name(m, stock_code, frequency)} |-> tbls[n]]

\* the engine state delete_klines leaves
delete_klines_result(tbls, market, stock_code, frequency) ==
    LET table_name == klines_table_name(market, stock_code, frequency)
    IN  IF existsTable(tbls, table_name) THEN dropTable(tbls, table_name) ELSE tbls

\* DolphinDB.delete_klines
delete_klines(market, stock_code, frequency) ==
    LET table_name == klines_table_name(market, stock_code, frequency)
    IN  /\ tables' = delete_klines_result(tables, market, stock_code, frequency)
        /\ call' = [op |-> "delete_klines", market |-> market,
                    stock_code |-> stock_code, frequency |-> frequency]
        /\ ret' = None
        /\ UNCHANGED <<cl_cache, cl_stock_info, now, migVars, inflight>>

\* ------------------------------------------------------------------------
\* Cache store
\* ------------------------------------------------------------------------
MaxTime == 3        \* the clock and the expire arguments are 0..MaxTime

Keys == {"k1", "k2"}
Values == {"v1", "v2"}

\* "delete from T where <col> = <value>"
delete_where(rows, col, value) == SelectSeq(rows, LAMBDA r : r[col] # value)

\* a cache_set that inserts without deleting the key first
cache_set_result_insert_only(rows, key, value, expire) ==
    Append(rows, [k |-> key, v |-> value, expire |-> expire])

\* the rows of cl_cache that cache_set leaves: delete the key, then insert it
cache_set_result(rows, key, value, expire) ==
    Append(delete_where(rows, "k", key), [k |-> key, v |-> value, expire |-> expire])

\* DolphinDB.cache_set
cache_set(key, value, expire) ==
    /\ cl_cache' = cache_set_result(cl_cache, key, value, expire)
    /\ call' = [op |-> "cache_set", key |-> key, value |-> value, expire |-> expire]
    /\ ret' = None
    /\ UNCHANGED <<tables, cl_stock_info, now, migVars, inflight>>

\* mutant of cache_unexpired: an entry is served up to and including its expiry time
cache_unexpired_inclusive(row, current_time) ==
    row.expire = 0 \/ row.expire >= current_time

\* the expiry condition of cache_get's query
cache_unexpired(row, current_time) ==
    row.expire = 0 \/ row.expire > current_time

\* what cache_get returns on the cache rows at current_time
cache_get_result(rows, key, current_time) ==
    LET result == SelectSeq(rows, LAMBDA r : r.k = key /\ cache_unexpired(r, current_time))
    IN  IF Len(result) > 0 THEN Some(result[1].v) ELSE None

\* DolphinDB.cache_get
cache_get(key) ==
    /\ ret' = cache_get_result(cl_cache, key, now)
    /\ call' = [op |-> "cache_get", key |-> key]
    /\ UNCHANGED <<tables, cl_cache, cl_stock_info, now, migVars, inflight>>

\* time.time() advances
Tick ==
    /\ now < MaxTime
    /\ now' = now + 1
    /\ UNCHANGED <<tables, cl_cache, cl_stock_info, call, ret, migVars, inflight>>

\* ------------------------------------------------------------------------
\* Reference store
\* ------------------------------------------------------------------------
MaxInfos == 2       \* instruments in one stock_info_insert call

InfoMarkets == {"a", "hk"}

TextColumns == {"industry", "concept"}
NumericColumns == {"total_share", "flow_share", "total_assets", "liquid_assets",
                   "fixed_assets", "reserved", "reserved_pershare", "esp", "bvps", "pb",
                   "pe", "undp", "perundp", "rev", "profit", "gpr", "npr", "holders"}
Columns == {"market", "code", "name"} \cup TextColumns \cup NumericColumns

\* StockInfo objects as callers build them: code and name, other attributes optional
StockInfoInputs ==
    {[code |-> c, name |-> "n" \o c] : c \in {"A", "C"}}
        \cup {[code |-> "B", name |-> "nB", industry |-> "bank", pe |-> 12]}

StockInfoLists == UNION {[1..n -> StockInfoInputs] : n \in 0..MaxInfos}

\* mutant of stock_info_rows: the rows of the frame take their market from the object
stock_info_rows_no_market(market, stock_infos) ==
    [i \in 1..Len(stock_infos) |->
        [col \in Columns |->
            IF col = "market" THEN getattr(stock_infos[i], "market", "")
            ELSE IF col \in {"code", "name"} THEN stock_infos[i][col]
            ELSE IF col \in TextColumns THEN getattr(stock_infos[i], col, "")
            ELSE getattr(stock_infos[i], col, 0)]]

\* data_dict of stock_info_insert
stock_info_rows(market, stock_infos) ==
    [i \in 1..Len(stock_infos) |->
        [col \in Columns |->
            IF col = "market" THEN market
            ELSE IF col \in {"code", "name"} THEN stock_infos[i][col]
            ELSE IF col \in TextColumns THEN getattr(stock_infos[i], col, "")
            ELSE getattr(stock_infos[i], col, 0)]]

\* a stock_info_insert whose delete statement has no where clause
stock_info_insert_result_delete_all(rows, market, stock_infos) ==
    IF stock_infos = <<>> THEN rows
    ELSE stock_info_rows(market, stock_infos)

\* the rows of cl_stock_info that stock_info_insert leaves
stock_info_insert_result(rows, market, stock_infos) ==
    IF stock_infos = <<>> THEN rows
    ELSE delete_where(rows, "market", market) \o stock_info_rows(market, stock_infos)

\* DolphinDB.stock_info_insert
stock_info_insert(market, stock_infos) ==
    /\ cl_stock_info' = stock_info_insert_result(cl_stock_info, market, stock_infos)
    /\ call' = [op |-> "stock_info_insert", market |-> market, stock_infos |-> stock_infos,
                deleted |-> IF stock_infos = <<>> THEN 0
                            ELSE Len(SelectSeq(cl_stock_info, LAMBDA r : r.market = market))]
    /\ ret' = None
    /\ UNCHANGED <<tables, cl_cache, now, migVars, inflight>>

\* a stock_info_query whose where clause names the market only
stock_info_query_result_market_only(rows, market, code) ==
    LET result == SelectSeq(rows, LAMBDA r : r.market = market)
    IN  [i \in 1..Len(result) |-> [col \in Columns |-> result[i][col]]]

\* what stock_info_query returns: one StockInfo object per selected row
stock_info_query_result(rows, market, code) ==
    LET result == SelectSeq(rows, LAMBDA r :
                     r.market = market /\ (code # None /\ code[1] # "" => r.code = code[1]))
    IN  [i \in 1..Len(result) |-> [col \in Columns |-> result[i][col]]]

\* DolphinDB.stock_info_query
stock_info_query(market, code) ==
    /\ ret' = stock_info_query_result(cl_stock_info, market, code)
    /\ call' = [op |-> "stock_info_query", market |-> market, code |-> code]
    /\ UNCHANGED <<tables, cl_cache, cl_stock_info, now, migVars, inflight>>

\* ------------------------------------------------------------------------
\* Store construction
\* ------------------------------------------------------------------------
\* DolphinDB._create_database: an existing database is dropped with all its tables
create_database(store) == [tables |-> << >>, cl_cache |-> << >>, cl_stock_info |-> << >>]

\* DolphinDB._init_tables: cl_cache and cl_stock_info are dropped and created anew
init_tables(store) == [store EXCEPT !.cl_cache = << >>, !.cl_stock_info = << >>]

\* DolphinDB.__init__ on the engine state store
DolphinDB_init(store) == init_tables(create_database(store))

\* ------------------------------------------------------------------------
\* Migration pipeline: the legacy source
\* ------------------------------------------------------------------------
MaxBatchSize == 2   \* --batch-size is -1..MaxBatchSize
MaxRuns == 2        \* invocations of the tool in one behaviour
MaxAccepted == 1    \* the engine rejects a bar write after 0..MaxAccepted accepted ones

\* "name LIKE pattern": _ matches any one character, % any run of characters
RECURSIVE like(_, _)
like(name, pattern) ==
    IF Len(pattern) = 0 THEN Len(name) = 0
    ELSE IF Head(pattern) = "%"
         THEN like(name, Tail(pattern)) \/ (Len(name) > 0 /\ like(Tail(name), pattern))
    ELSE /\ Len(name) > 0
         /\ Head(pattern) = "_" \/ Head(pattern) = Head(name)
         /\ like(Tail(name), Tail(pattern))

\* str.split(sep) for a one-character sep
RECURSIVE split(_, _)
split(s, sep) ==
    IF \A i \in 1..Len(s) : SubSeq(s, i, i) # sep THEN <<s>>
    ELSE LET i == CHOOSE i \in 1..Len(s) :
                     SubSeq(s, i, i) = sep /\ \A j \in 1..i - 1 : SubSeq(s, j, j) # sep
         IN  <<SubSeq(s, 1, i - 1)>> \o split(SubSeq(s, i + 1, Len(s)), sep)

\* sep.join(parts)
RECURSIVE join(_, _)
join(sep, parts) ==
    IF Len(parts) = 0 THEN ""
    ELSE IF Len(parts) = 1 THEN parts[1]
    ELSE parts[1] \o sep \o join(sep, Tail(parts))

\* a row of a legacy bar table; a numeric cell is Some(number) or None (NULL)
SourceRow(code, f, dt, x) ==
    [code |-> code, dt |-> dt, f |-> f, o |-> Some(x), c |-> Some(x + 1), h |-> Some(x + 2),
     l |-> Some(x - 1), v |-> Some(100 + x), a |-> Some(200 + x)]

GoodRows(code, n) == [i \in 1..n |-> SourceRow(code, "d", n - i, 10 + n - i)]

\* rows whose row number bad holds a NULL open price
BadRows(code, n, bad) == [GoodRows(code, n) EXCEPT ![bad].o = None]

LegacyTable(name, rows, readable) == [name |-> name, rows |-> rows, readable |-> readable]

\* the legacy databases the model starts from: bar tables of markets a, currency
\* and currency_spot, one table with a two-segment name, the instruments of
\* market a and the cache table
Sources ==
    {   first \o unparseable \o second \o others \o aux :
        first \in {<<LegacyTable("a_600000_SH_d", GoodRows("600000.SH", 3), r)>> :
                      r \in BOOLEAN},
        unparseable \in {<< >>, <<LegacyTable("a_x", GoodRows("x", 1), TRUE)>>},
        second \in {<<LegacyTable("a_000001_SZ_d", rows, TRUE)>> :
                      rows \in {<< >>, GoodRows("000001.SZ", 2),
                                BadRows("000001.SZ", 2, 2), BadRows("000001.SZ", 2, 1)}},
        others \in {<<LegacyTable("currency_BTC_d", GoodRows("BTC", 1), TRUE),
                      LegacyTable("currency_spot_ETH_d", GoodRows("ETH", 1), TRUE)>>},
        aux \in {<< >>,
                 <<LegacyTable("cl_stock_info_a",
                               <<[code |-> "A", name |-> "nA"],
                                 [code |-> "B", name |-> "nB", industry |-> "bank"]>>, TRUE),
                   LegacyTable("cl_cache",
                               <<[k |-> "k1", v |-> "v1", expire |-> 0],
                                 [k |-> "k2", v |-> "v2", expire |-> 2],
                                 [k |-> "k1", v |-> "v3", expire |-> 1]>>, TRUE)>>,
                 <<LegacyTable("cl_stock_info_a", <<[code |-> "A"]>>, TRUE),
                   LegacyTable("cl_cache", << >>, TRUE)>>}
    }

MigMarkets == {"a", "currency"}
CodeLists == {None, <<"600000.SH">>, <<"BTC", "000001.SZ">>}
BatchSizes == -1..MaxBatchSize

\* the legacy table called name, in a sequence: << >> when there is none
legacy_table(src, name) == SelectSeq(src, LAMBDA t : t.name = name)

\* ------------------------------------------------------------------------
\* Migration pipeline: DataMigrator
\* ------------------------------------------------------------------------
\* DataMigrator.get_klines_tables
get_klines_tables(src, market) ==
    LET matching == SelectSeq(src, LAMBDA t : like(t.name, market \o "_%"))
    IN  [i \in 1..Len(matching) |-> matching[i].name]

\* parse_table_info accepting names of two segments (a faulty variant)
parse_table_info_two_segments(table_name) ==
    LET parts == split(table_name, "_")
    IN  IF Len(parts) < 2 THEN None
        ELSE Some([market |-> parts[1],
                   code |-> replace(join("_", SubSeq(parts, 2, Len(parts) - 1)), "_", "."),
                   frequency |-> parts[Len(parts)]])

\* DataMigrator.parse_table_info: None stands for the empty dict
parse_table_info(table_name) ==
    LET parts == split(table_name, "_")
    IN  IF Len(parts) < 3 THEN None
        ELSE Some([market |-> parts[1],
                   code |-> replace(join("_", SubSeq(parts, 2, Len(parts) - 1)), "_", "."),
                   frequency |-> parts[Len(parts)]])

\* float(x), int(x) on a cell: raise on NULL
can_convert(cell) == cell # None
number(cell) == cell[1]

\* whether the conversion loop of migrate_klines_table accepts a row
convertible(market, row) ==
    /\ {"code", "dt", "f", "o", "c", "h", "l", "v"} \subseteq DOMAIN row
    /\ \A n \in {"o", "c", "h", "l", "v"} : can_convert(row[n])
    /\ "a" \in DOMAIN row => can_convert(row.a)
    /\ (market = FUTURES /\ "p" \in DOMAIN row) => can_convert(row.p)

\* the KLine object the conversion loop builds from a row
convert_row(market, row) ==
    LET kline == [code |-> row.code, dt |-> row.dt, f |-> row.f,
                  o |-> number(row.o), c |-> number(row.c), h |-> number(row.h),
                  l |-> number(row.l), v |-> number(row.v),
                  a |-> IF "a" \in DOMAIN row THEN number(row.a) ELSE 0]
    IN  IF market = FUTURES /\ "p" \in DOMAIN row THEN WithP(kline, number(row.p)) ELSE kline

\* "SELECT * FROM t ORDER BY dt": one of the arrangements sorted by dt
read_sql_ordered(rows) == CHOOSE s \in order_by_dt(rows, "asc") : TRUE

\* the result dicts of migrate_klines_table
klines_unparseable(table_name) ==
    [success |-> FALSE, error |-> "cannot parse table name: " \o table_name]

klines_dry_run_off_by_one(table_name, info, count) ==
    [success |-> TRUE, table |-> table_name, market |-> info.market, code |-> info.code,
     frequency |-> info.frequency, count |-> count + 1, dry_run |-> TRUE]

klines_dry_run(table_name, info, count) ==
    [success |-> TRUE, table |-> table_name, market |-> info.market, code |-> info.code,
     frequency |-> info.frequency, count |-> count, dry_run |-> TRUE]

unit_empty(table_name) ==
    [success |-> TRUE, table |-> table_name, count |-> 0, message |-> "empty table, skipped"]

\* a failure that is reported like an empty table
unit_failed_as_skipped(table_name, e) ==
    [success |-> TRUE, table |-> table_name, count |-> 0, message |-> e]

unit_failed(table_name, e) == [success |-> FALSE, table |-> table_name, error |-> e]

klines_migrated(table_name, info, total_count, inserted_count) ==
    [success |-> TRUE, table |-> table_name, market |-> info.market, code |-> info.code,
     frequency |-> info.frequency, count |-> total_count, inserted |-> inserted_count]

\* main: the arguments are parsed and an invocation starts; a later invocation
\* repeats the command line with --dry-run added or removed
main(market, codes, batch_size, dry_run) ==
    /\ pc \in {"shell", "done", "raised"}
    /\ runs < MaxRuns
    /\ pc # "shell" => /\ market = args.market
                       /\ codes = args.codes
                       /\ batch_size = args.batch_size
                       /\ dry_run = ~args.dry_run
    /\ prev' = IF pc = "shell" THEN None
               ELSE Some([args |-> args, results |-> results, pc |-> pc])
    /\ args' = [market |-> market, codes |-> codes, batch_size |-> batch_size,
                dry_run |-> dry_run]
    /\ pc' = "main"
    /\ runs' = runs + 1
    /\ results' = << >>
    /\ exit_code' = None
    /\ reads' = {}
    /\ summary' = None
    /\ UNCHANGED <<tables, cl_cache, cl_stock_info, now, call, ret,
                   source, engine_accepts, todo, unit, inflight>>

\* DataMigrator.__init__: the target store is constructed
DataMigrator_init ==
    /\ pc = "main"
    /\ LET store == DolphinDB_init([tables |-> tables, cl_cache |-> cl_cache,
                                    cl_stock_info |-> cl_stock_info])
       IN  /\ tables' = store.tables
           /\ cl_cache' = store.cl_cache
           /\ cl_stock_info' = store.cl_stock_info
    /\ pc' = "migrate_stock_info"
    /\ UNCHANGED <<now, call, ret, source, engine_accepts, args, results, todo, unit,
                   prev, runs, exit_code, reads, summary, inflight>>

\* what migrate_stock_info returns, the rows of cl_stock_info it leaves and the
\* legacy tables it queries for rows
migrate_stock_info_outcome(src, rows, market, dry_run) ==
    LET info_table == "cl_stock_info_" \o market
        found == legacy_table(src, info_table)
        stock_infos == found[1].rows
    IN  IF found = << >>
        THEN [result |-> [success |-> TRUE, message |-> "no table " \o info_table],
              rows |-> rows, read |-> {}]
        ELSE IF dry_run
        THEN [result |-> [success |-> TRUE, table |-> info_table,
                          count |-> Len(stock_infos), dry_run |-> TRUE],
              rows |-> rows, read |-> {info_table}]
        ELSE IF ~found[1].readable
        THEN [result |-> unit_failed(info_table, "read error"), rows |-> rows,
              read |-> {info_table}]
        ELSE IF Len(stock_infos) = 0
        THEN [result |-> unit_empty(info_table), rows |-> rows, read |-> {info_table}]
        ELSE IF \E i \in 1..Len(stock_infos) : ~({"code", "name"} \subseteq DOMAIN stock_infos[i])
        THEN [result |-> unit_failed(info_table, "AttributeError"), rows |-> rows,
              read |-> {info_table}]
        ELSE [result |-> [success |-> TRUE, table |-> info_table,
                          count |-> Len(stock_infos), inserted |-> Len(stock_infos)],
              rows |-> stock_info_insert_result(rows, market, stock_infos),
              read |-> {info_table}]

\* DataMigrator.migrate_stock_info, as migrate_market calls it
migrate_stock_info ==
    /\ pc = "migrate_stock_info"
    /\ LET out == migrate_stock_info_outcome(source, cl_stock_info, args.market, args.dry_run)
       IN  /\ results' = Append(results, out.result)
           /\ cl_stock_info' = out.rows
           /\ reads' = reads \cup out.read
    /\ pc' = "get_klines_tables"
    /\ UNCHANGED <<tables, cl_cache, now, call, ret, source, engine_accepts, args, todo,
                   unit, prev, runs, exit_code, summary, inflight>>

\* migrate_market without its code filter (a faulty variant)
filter_codes_off(tbls, codes) == tbls

\* the code filter of migrate_market
filter_codes(tbls, codes) ==
    IF codes # None /\ codes # << >>
    THEN SelectSeq(tbls, LAMBDA t :
            LET table_info == parse_table_info(t)
            IN  table_info # None /\ \E i \in 1..Len(codes) : codes[i] = table_info[1].code)
    ELSE tbls

\* migrate_market: the bar tables are listed and filtered
discover ==
    /\ pc = "get_klines_tables"
    /\ todo' = filter_codes(get_klines_tables(source, args.market), args.codes)
    /\ pc' = "migrate_klines_table"
    /\ UNCHANGED <<tables, cl_cache, cl_stock_info, now, call, ret, source, engine_accepts,
                   args, results, unit, prev, runs, exit_code, reads, summary,
                   inflight>>

\* the loop of migrate_market moves on to the next table with the unit's result
next_table(result) ==
    /\ results' = Append(results, result)
    /\ todo' = Tail(todo)
    /\ unit' = None

\* migrate_klines_table up to its write loop: parse, count or read, convert
migrate_klines_table_begin ==
    /\ pc = "migrate_klines_table"
    /\ unit = None
    /\ todo # << >>
    /\ LET table_name == Head(todo)
           table_info == parse_table_info(table_name)
           t == legacy_table(source, table_name)[1]
           df == read_sql_ordered(t.rows)
       IN  \/ /\ table_info = None
              /\ next_table(klines_unparseable(table_name))
              /\ UNCHANGED <<pc, exit_code, reads>>
           \/ /\ table_info # None /\ args.dry_run /\ t.readable
              /\ next_table(klines_dry_run(table_name, table_info[1], Len(t.rows)))
              /\ reads' = reads \cup {table_name}
              /\ UNCHANGED <<pc, exit_code>>
           \/ /\ table_info # None /\ args.dry_run /\ ~t.readable
              \* the count query raises outside the try block: main catches it
              /\ pc' = "raised"
              /\ exit_code' = Some(1)
              /\ reads' = reads \cup {table_name}
              /\ UNCHANGED <<results, todo, unit>>
           \/ /\ table_info # None /\ ~args.dry_run /\ ~t.readable
              /\ next_table(unit_failed(table_name, "read error"))
              /\ reads' = reads \cup {table_name}
              /\ UNCHANGED <<pc, exit_code>>
           \/ /\ table_info # None /\ ~args.dry_run /\ t.readable /\ Len(df) = 0
              /\ next_table(unit_empty(table_name))
              /\ reads' = reads \cup {table_name}
              /\ UNCHANGED <<pc, exit_code>>
           \/ /\ table_info # None /\ ~args.dry_run /\ t.readable /\ Len(df) > 0
              /\ \E i \in 1..Len(df) : ~convertible(table_info[1].market, df[i])
              /\ next_table(unit_failed(table_name, "conversion error"))
              /\ reads' = reads \cup {table_name}
              /\ UNCHANGED <<pc, exit_code>>
           \/ /\ table_info # None /\ ~args.dry_run /\ t.readable /\ Len(df) > 0
              /\ \A i \in 1..Len(df) : convertible(table_info[1].market, df[i])
              /\ args.batch_size = 0
              \* range(0, total_count, 0) raises ValueError inside the try block
              /\ next_table(unit_failed(table_name, "range() arg 3 must not be zero"))
              /\ reads' = reads \cup {table_name}
              /\ UNCHANGED <<pc, exit_code>>
           \/ /\ table_info # None /\ ~args.dry_run /\ t.readable /\ Len(df) > 0
              /\ \A i \in 1..Len(df) : convertible(table_info[1].market, df[i])
              /\ args.batch_size # 0
              /\ unit' = Some([table |-> table_name, info |-> table_info[1],
                               klines |-> [i \in 1..Len(df) |->
                                              convert_row(table_info[1].market, df[i])],
                               i |-> 0, inserted_count |-> 0])
              /\ reads' = reads \cup {table_name}
              /\ UNCHANGED <<results, todo, pc, exit_code>>
    /\ UNCHANGED <<tables, cl_cache, cl_stock_info, now, call, ret, source, engine_accepts,
                   args, prev, runs, summary, inflight>>

\* whether range(0, total_count, batch_size) still yields the unit's index i
in_range(u, batch_size) == batch_size > 0 /\ u.i < Len(u.klines)

\* a slice without its upper end: klines[i:]
batch_of_rest(u, batch_size) == SubSeq(u.klines, u.i + 1, Len(u.klines))

\* klines[i:i + batch_size]
batch_of(u, batch_size) ==
    SubSeq(u.klines, u.i + 1,
           IF u.i + batch_size < Len(u.klines) THEN u.i + batch_size ELSE Len(u.klines))

\* one pass of the write loop of migrate_klines_table
migrate_klines_table_batch ==
    /\ pc = "migrate_klines_table"
    /\ unit # None
    /\ in_range(unit[1], args.batch_size)
    /\ LET u == unit[1]
           batch == batch_of(u, args.batch_size)
       IN  \/ /\ engine_accepts = Some(0)
              \* klines_insert raises: the unit fails, what was written stays
              /\ engine_accepts' = None
              /\ next_table(unit_failed(u.table, "engine error"))
              /\ UNCHANGED tables
           \/ /\ engine_accepts # Some(0)
              /\ tables' = klines_insert_result(tables, u.info.market, u.info.code,
                                                u.info.frequency, batch)
              /\ engine_accepts' = IF engine_accepts = None THEN None
                                   ELSE Some(engine_accepts[1] - 1)
              /\ unit' = Some([u EXCEPT !.i = @ + args.batch_size,
                                        !.inserted_count = @ + Len(batch)])
              /\ UNCHANGED <<results, todo>>
    /\ UNCHANGED <<cl_cache, cl_stock_info, now, call, ret, source, args, pc, prev, runs,
                   exit_code, reads, summary, inflight>>

\* migrate_klines_table after its write loop
migrate_klines_table_end ==
    /\ pc = "migrate_klines_table"
    /\ unit # None
    /\ ~in_range(unit[1], args.batch_size)
    /\ LET u == unit[1]
       IN  next_table(klines_migrated(u.table, u.info, Len(u.klines), u.inserted_count))
    /\ UNCHANGED <<tables, cl_cache, cl_stock_info, now, call, ret, source, engine_accepts,
                   args, pc, prev, runs, exit_code, reads, summary, inflight>>

\* the cache rows after cache_set has replayed every row of rows
RECURSIVE replay_cache(_, _)
replay_cache(cache, rows) ==
    IF rows = << >> THEN cache
    ELSE replay_cache(cache_set_result(cache, rows[1].k, rows[1].v, rows[1].expire),
                      Tail(rows))

\* what migrate_cache returns and the rows of cl_cache it leaves
migrate_cache_outcome(src, cache, dry_run) ==
    LET found == legacy_table(src, "cl_cache")
        df == found[1].rows
    IN  IF found = << >> \/ ~found[1].readable
        THEN [result |-> unit_failed("cl_cache", "read error"), cache |-> cache]
        ELSE IF dry_run
        THEN [result |-> [success |-> TRUE, table |-> "cl_cache", count |-> Len(df),
                          dry_run |-> TRUE],
              cache |-> cache]
        ELSE IF Len(df) = 0
        THEN [result |-> unit_empty("cl_cache"), cache |-> cache]
        ELSE [result |-> [success |-> TRUE, table |-> "cl_cache", count |-> Len(df),
                          inserted |-> Len(df)],
              cache |-> replay_cache(cache, df)]

\* dict.get(key, default)
get(r, key, default) == IF key \in DOMAIN r THEN r[key] ELSE default

\* sum(r.get('count', 0) for r in results if r['success'])
RECURSIVE sum_counts(_)
sum_counts(rs) ==
    IF rs = << >> THEN 0
    ELSE (IF rs[1].success THEN get(rs[1], "count", 0) ELSE 0) + sum_counts(Tail(rs))

\* the success count taken as the number of results (a faulty variant)
success_count_all(rs) == Len(rs)

success_count(rs) == Len(SelectSeq(rs, LAMBDA r : r.success))
total_records(rs) == sum_counts(rs)
failed_results(rs) == SelectSeq(rs, LAMBDA r : ~r.success)

\* the summary migrate_market prints: the success count out of the number of
\* results, the record total and one line per failed result
print_summary(rs) ==
    [success_count |-> success_count(rs),
     len_results |-> Len(rs),
     total_records |-> total_records(rs),
     failed |-> [i \in 1..Len(failed_results(rs)) |->
                    [table |-> get(failed_results(rs)[i], "table", "unknown"),
                     error |-> get(failed_results(rs)[i], "error", "unknown error")]]]

\* migrate_market after its table loop: the cache unit for market a, the
\* summary, and main's normal exit
migrate_market_finish ==
    /\ pc = "migrate_klines_table"
    /\ unit = None
    /\ todo = << >>
    /\ IF args.market = "a"
       THEN LET out == migrate_cache_outcome(source, cl_cache, args.dry_run)
            IN  /\ results' = Append(results, out.result)
                /\ cl_cache' = out.cache
                /\ reads' = reads \cup {"cl_cache"}
       ELSE UNCHANGED <<results, cl_cache, reads>>
    /\ summary' = Some(print_summary(results'))
    /\ pc' = "done"
    /\ exit_code' = Some(0)
    /\ UNCHANGED <<tables, cl_stock_info, now, call, ret, source, engine_accepts, args,
                   todo, unit, prev, runs, inflight>>

\* ------------------------------------------------------------------------
\* The store under concurrent callers: every engine call of a method is a step
\* ------------------------------------------------------------------------
ConcKeys == {"k1"}
ConcInfoLists == {l \in StockInfoLists : Len(l) = 1 /\ DOMAIN l[1] = {"code", "name"}}
ConcKLineLists(code, f) == {<<KLine(code, f, dt, 10 + dt)>> : dt \in 0..1}

\* the caller is inside no store method
idle(caller) ==
    IF inflight[caller] = None THEN TRUE ELSE inflight[caller][1].step = "returned"

\* the caller is inside the method op, about to run its step
at(caller, op, step) ==
    /\ inflight[caller] # None
    /\ inflight[caller][1].op = op
    /\ inflight[caller][1].step = step

\* cache_set up to its first engine call: "delete from cl_cache where k=key"
cache_set_delete(caller, key, value, expire) ==
    /\ idle(caller)
    /\ cl_cache' = delete_where(cl_cache, "k", key)
    /\ inflight' = [inflight EXCEPT ![caller] =
                       Some([op |-> "cache_set", step |-> "insert", key |-> key,
                             value |-> value, expire |-> expire,
                             held |-> cache_get_result(cl_cache, key, now) # None])]
    /\ call' = [op |-> "cache_set", key |-> key]
    /\ ret' = None
    /\ UNCHANGED <<tables, cl_stock_info, now, migVars>>

\* cache_set from its upload to its return: "insert into cl_cache select * from
\* cache_data"
cache_set_insert(caller) ==
    /\ at(caller, "cache_set", "insert")
    /\ LET frame == inflight[caller][1]
       IN  /\ cl_cache' = Append(cl_cache, [k |-> frame.key, v |-> frame.value,
                                            expire |-> frame.expire])
           /\ inflight' = [inflight EXCEPT ![caller] =
                              Some([op |-> "cache_set", step |-> "returned",
                                    key |-> frame.key, value |-> frame.value])]
           /\ call' = [op |-> "cache_set", key |-> frame.key]
    /\ ret' = None
    /\ UNCHANGED <<tables, cl_stock_info, now, migVars>>

\* stock_info_insert up to its first engine call: "delete from cl_stock_info
\* where market=market"
stock_info_insert_delete(caller, market, stock_infos) ==
    /\ idle(caller)
    /\ stock_infos # << >>
    /\ cl_stock_info' = delete_where(cl_stock_info, "market", market)
    /\ inflight' = [inflight EXCEPT ![caller] =
                       Some([op |-> "stock_info_insert", step |-> "insert",
                             market |-> market, stock_infos |-> stock_infos,
                             held |-> stock_info_query_result(cl_stock_info, market, None)
                                         # << >>])]
    /\ call' = [op |-> "stock_info_insert", market |-> market]
    /\ ret' = None
    /\ UNCHANGED <<tables, cl_cache, now, migVars>>

\* stock_info_insert from its upload to its return: "insert into cl_stock_info
\* select * from stock_info_data"
stock_info_insert_insert(caller) ==
    /\ at(caller, "stock_info_insert", "insert")
    /\ LET frame == inflight[caller][1]
       IN  /\ cl_stock_info' = cl_stock_info \o stock_info_rows(frame.market,
                                                                 frame.stock_infos)
           /\ call' = [op |-> "stock_info_insert", market |-> frame.market]
    /\ inflight' = [inflight EXCEPT ![caller] = None]
    /\ ret' = None
    /\ UNCHANGED <<tables, cl_cache, now, migVars>>

\* klines_insert up to its first engine call: existsTable(table_name)
klines_insert_existsTable(caller, market, stock_code, frequency, klines) ==
    /\ idle(caller)
    /\ klines # << >>
    /\ TotalRows(tables) + Len(klines) <= MaxRows
    /\ LET exists == existsTable(tables, klines_table_name(market, stock_code, frequency))
       IN  inflight' = [inflight EXCEPT ![caller] =
                           Some([op |-> "klines_insert",
                                 step |-> IF exists THEN "insert" ELSE "create",
                                 market |-> market, stock_code |-> stock_code,
                                 frequency |-> frequency, klines |-> klines,
                                 existed |-> exists])]
    /\ UNCHANGED <<tables, cl_cache, cl_stock_info, now, call, ret, migVars>>

\* klines_insert, the table was absent: the script of create_klines_table runs
klines_insert_create(caller) ==
    /\ at(caller, "klines_insert", "create")
    /\ LET frame == inflight[caller][1]
       IN  /\ tables' = create_klines_table_script(tables, frame.market, frame.stock_code,
                                                   frame.frequency)
           /\ inflight' = [inflight EXCEPT ![caller] =
                              Some([frame EXCEPT !.step = "insert"])]
    /\ UNCHANGED <<cl_cache, cl_stock_info, now, call, ret, migVars>>

\* klines_insert from its upload to its return: "insert into T select * from T"
klines_insert_upload(caller) ==
    /\ at(caller, "klines_insert", "insert")
    /\ LET frame == inflight[caller][1]
       IN  /\ tables' = insert_into(tables,
                                    klines_table_name(frame.market, frame.stock_code,
                                                      frame.frequency),
                                    data_dict(frame.market, frame.klines))
           /\ inflight' = [inflight EXCEPT ![caller] =
                              Some([frame EXCEPT !.step = "returned"])]
    /\ UNCHANGED <<cl_cache, cl_stock_info, now, call, ret, migVars>>

Dates == {None} \cup {Some(d) : d \in 0..MaxDt}
Limits == {None} \cup {Some(n) : n \in 0..MaxLimit}
Orders == {"asc", "desc"}

\* DolphinDB.__init__ on an engine with no database yet
Init ==
    /\ tables = << >>
    /\ cl_cache = << >>
    /\ cl_stock_info = << >>
    /\ now = 0
    /\ source = << >>
    /\ engine_accepts = None
    /\ args = None
    /\ pc = "idle"
    /\ results = << >>
    /\ todo = << >>
    /\ unit = None
    /\ prev = None
    /\ runs = 0
    /\ exit_code = None
    /\ reads = {}
    /\ summary = None
    /\ inflight = [caller \in Callers |-> None]
    /\ call = [op |-> "__init__"]
    /\ ret = None

Next ==
    \E market \in Markets, stock_code \in Codes, frequency \in Frequencys :
        \/ create_klines_table(market, stock_code, frequency)
        \/ \E klines \in KLineLists(stock_code, frequency) :
              klines_insert(market, stock_code, frequency, klines)
        \/ \E start_date \in Dates, end_date \in Dates, limit \in Limits, order \in Orders :
              klines_query(market, stock_code, frequency, start_date, end_date, limit, order)
        \/ query_klines_last_datetime(market, stock_code, frequency)
        \/ delete_klines(market, stock_code, frequency)

Spec == Init /\ [][Next]_vars

NextCache ==
    \/ \E key \in Keys, value \in Values, expire \in 0..MaxTime :
          cache_set(key, value, expire)
    \/ \E key \in Keys : cache_get(key)
    \/ Tick

SpecCache == Init /\ [][NextCache]_vars

NextRef ==
    \/ \E market \in InfoMarkets, stock_infos \in StockInfoLists :
          stock_info_insert(market, stock_infos)
    \/ \E market \in InfoMarkets, code \in {None} \cup {Some(c) : c \in {"A", "B"}} :
          stock_info_query(market, code)

SpecRef == Init /\ [][NextRef]_vars

\* callers that replace cache entries and instruments while others read
NextConc ==
    \E caller \in Callers :
        \/ \E key \in ConcKeys, value \in Values : cache_set_delete(caller, key, value, 0)
        \/ cache_set_insert(caller)
        \/ \E stock_infos \in ConcInfoLists : stock_info_insert_delete(caller, "a", stock_infos)
        \/ stock_info_insert_insert(caller)
        \/ \E key \in ConcKeys : cache_get(key)
        \/ stock_info_query("a", None)

SpecConc == Init /\ [][NextConc]_vars

\* callers that insert bars for one (market, code, frequency) at the same time
NextFirstUse ==
    \E caller \in Callers, stock_code \in Codes, frequency \in Frequencys :
        \/ \E klines \in ConcKLineLists(stock_code, frequency) :
              klines_insert_existsTable(caller, "a", stock_code, frequency, klines)
        \/ klines_insert_create(caller)
        \/ klines_insert_upload(caller)

SpecFirstUse == Init /\ [][NextFirstUse]_vars

\* an engine that already holds data, as an earlier process left it
PopulatedStore ==
    [tables |-> klines_insert_result(<< >>, "a", "600000.SH", "d",
                                     <<KLine("600000.SH", "d", 0, 10)>>),
     cl_cache |-> cache_set_result(<< >>, "k0", "v0", 0),
     cl_stock_info |-> stock_info_insert_result(<< >>, "hk", <<[code |-> "H", name |-> "nH"]>>)]

EmptyStore == [tables |-> << >>, cl_cache |-> << >>, cl_stock_info |-> << >>]

\* the shell before the migration tool is started
InitMigrate ==
    /\ \E store \in {EmptyStore, PopulatedStore} :
          /\ tables = store.tables
          /\ cl_cache = store.cl_cache
          /\ cl_stock_info = store.cl_stock_info
    /\ now = 0
    /\ call = [op |-> "none"]
    /\ ret = None
    /\ source \in Sources
    /\ engine_accepts \in {None} \cup {Some(n) : n \in 0..MaxAccepted}
    /\ args = None
    /\ pc = "shell"
    /\ results = << >>
    /\ todo = << >>
    /\ unit = None
    /\ prev = None
    /\ runs = 0
    /\ exit_code = None
    /\ reads = {}
    /\ summary = None
    /\ inflight = [caller \in Callers |-> None]

NextMigrate ==
    \/ \E market \in MigMarkets, codes \in CodeLists, batch_size \in BatchSizes,
          dry_run \in BOOLEAN : main(market, codes, batch_size, dry_run)
    \/ DataMigrator_init
    \/ migrate_stock_info
    \/ discover
    \/ migrate_klines_table_begin
    \/ migrate_klines_table_batch
    \/ migrate_klines_table_end
    \/ migrate_market_finish

SpecMigrate == InitMigrate /\ [][NextMigrate]_vars

\* ------------------------------------------------------------------------
\* Properties of the KLine store
\* ------------------------------------------------------------------------
BaseFields == {"code", "dt", "f", "o", "c", "h", "l", "v", "a"}
Base(k) == [n \in BaseFields |-> k[n]]

\* r holds exactly the bars of klines, each once, in ascending timestamp order
IsRoundTrip(klines, r) ==
    /\ Len(r) = Len(klines)
    /\ \A i \in 1..Len(r) - 1 : r[i].dt <= r[i + 1].dt
    /\ \E p \in Permutations(1..Len(r)) :
          \A i \in 1..Len(r) : Base(r[i]) = Base(klines[p[i]])

\* C1: inserting N >= 1 bars into a table that did not exist and then querying it
\* with no start, end or limit returns exactly those N bars in ascending
\* timestamp order, with the inserted field values.
C1_RoundTrip ==
    (call.op = "klines_insert" /\ call.klines # <<>> /\ call.created)
    => \A r \in klines_query_result(tables, call.market, call.stock_code, call.frequency,
                                     None, None, None, "asc") :
          IsRoundTrip(call.klines, r)

\* C1 witness: a query returned two bars in ascending order from a table that
\* stores exactly these two bars in descending order.
C1_Witness ==
    /\ call.op = "klines_query"
    /\ Len(ret) = 2
    /\ ret[1].dt < ret[2].dt
    /\ LET name == klines_table_name(call.market, call.stock_code, call.frequency)
       IN  /\ existsTable(tables, name)
           /\ Len(tables[name].rows) = 2
           /\ tables[name].rows[1].dt > tables[name].rows[2].dt

\* C2 (as claimed): create_klines_table on a table that exists leaves its rows
\* unchanged.
C2_EnsureTableKeepsRows ==
    [][\A market \in Markets, stock_code \in Codes, frequency \in Frequencys :
         LET name == klines_table_name(market, stock_code, frequency)
         IN  ( /\ existsTable(tables, name)
               /\ tables[name].rows # <<>>
               /\ create_klines_table(market, stock_code, frequency) )
             => tables'[name].rows = tables[name].rows]_vars

\* C5: a bar returned by klines_query carries p exactly when the market is
\* futures; a futures bar inserted with p is returned with that p; a bar of
\* another market is returned without p even when the inserted object had one.
C5_MarketSchema ==
    /\ call.op = "klines_query"
       => \A i \in 1..Len(ret) : ("p" \in DOMAIN ret[i]) <=> (call.market = FUTURES)
    /\ call.op = "klines_insert"
       => \A r \in klines_query_result(tables, call.market, call.stock_code, call.frequency,
                                        None, None, None, "asc") :
             \A i \in 1..Len(call.klines) :
                LET k == call.klines[i]
                IN  IF call.market = FUTURES
                    THEN "p" \in DOMAIN k => \E j \in 1..Len(r) : r[j] = k
                    ELSE \E j \in 1..Len(r) : r[j] = Base(k)

\* C5 witness: a futures query returned a bar with the inserted open interest 7,
\* and the same object inserted under market "a" is stored without p.
C5_Witness ==
    /\ call.op = "klines_query"
    /\ call.market = FUTURES
    /\ \E i \in 1..Len(ret) : ret[i].p = 7
    /\ \E c \in Codes, f \in Frequencys :
          LET name == klines_table_name("a", c, f)
          IN  /\ existsTable(tables, name)
              /\ \E i \in 1..Len(tables[name].rows) :
                    /\ tables[name].rows[i].o = 20
                    /\ "p" \notin DOMAIN tables[name].rows[i]

\* ------------------------------------------------------------------------
\* Properties of the cache store and of the reference store
\* ------------------------------------------------------------------------
\* the instrument a row or returned object stands for, given what the caller set
IsInstrument(obj, market, info) ==
    /\ obj.market = market
    /\ \A n \in DOMAIN info : obj[n] = info[n]

\* C3: after stock_info_insert(m, X) and then stock_info_insert(m, Y) with Y
\* non-empty, stock_info_query(m) returns exactly the instruments of Y, so an
\* instrument of X that Y does not name is gone.
C3_ReplaceSemantics ==
    (call.op = "stock_info_insert" /\ call.stock_infos # <<>>)
    => LET r == stock_info_query_result(cl_stock_info, call.market, None)
       IN  /\ Len(r) = Len(call.stock_infos)
           /\ \A i \in 1..Len(r) : IsInstrument(r[i], call.market, call.stock_infos[i])

\* C3 witness: the call deleted the two instruments the market held and the
\* market now holds exactly B and C.
C3_Witness ==
    /\ call.op = "stock_info_insert"
    /\ call.deleted = 2
    /\ Len(call.stock_infos) = 2
    /\ call.stock_infos[1].code = "B" /\ call.stock_infos[2].code = "C"
    /\ LET r == stock_info_query_result(cl_stock_info, call.market, None)
       IN  Len(r) = 2 /\ r[1].code = "B" /\ r[2].code = "C"

Ended == pc \in {"done", "raised"}

\* the invocation is between the start of main and its end
Running == pc \in {"main", "migrate_stock_info", "get_klines_tables", "migrate_klines_table"}

\* the legacy tables discovery lists for the invocation's market
Discovered == get_klines_tables(source, args.market)

\* the unit a report entry stands for, as the summary names it
UnitId(r) == get(r, "table", "unknown")

\* the count of a report entry, -1 when it carries none
CountOf(r) == get(r, "count", -1)

\* the entries of a report that stand for bar units: all but the instruments
\* entry at the head and, in a finished report of market a, the cache entry
BarResults(rs, market, finished) ==
    SubSeq(rs, 2, Len(rs) - (IF market = "a" /\ finished THEN 1 ELSE 0))

HasFewerThan3Segments(name) == Len(split(name, "_")) < 3

\* C6 (as claimed): whatever failure a unit meets, the invocation ends with a
\* report that holds exactly one outcome per unit: the instruments, every bar
\* table to migrate and, for market a, the cache.
C6_FailureIsolation ==
    (pc # "shell" /\ Ended)
    => /\ pc = "done"
       /\ Len(results) = 1 + Len(filter_codes(Discovered, args.codes))
                           + (IF args.market = "a" THEN 1 ELSE 0)

\* the source the C7 case is about: one discovered name is unparseable, every
\* other discovered table is readable and all of its rows convert
OneUnparseableRestConvertible ==
    /\ Len(SelectSeq(Discovered, HasFewerThan3Segments)) = 1
    /\ \A i \in 1..Len(Discovered) :
          ~HasFewerThan3Segments(Discovered[i])
          => LET t == legacy_table(source, Discovered[i])[1]
             IN  /\ t.readable
                 /\ \A j \in 1..Len(t.rows) : convertible(args.market, t.rows[j])

\* the C7 case: a finished execution without code filter, with a positive batch
\* size, on such a source, in which the engine rejected no write
C7_Case ==
    /\ pc = "done"
    /\ ~args.dry_run
    /\ args.codes = None
    /\ args.batch_size > 0
    /\ OneUnparseableRestConvertible
    /\ \A i \in 1..Len(results) : get(results[i], "error", "") # "engine error"

\* C7: on a source with exactly one unparseable table name and n parseable
\* tables with convertible rows, an execution without code filter reports
\* exactly one failed bar unit and n successful bar units, each with the row
\* count of its source table.
C7_MigrationIsolation ==
    C7_Case
    => LET bars == BarResults(results, args.market, TRUE)
       IN  /\ Len(bars) = Len(Discovered)
           /\ Len(SelectSeq(bars, LAMBDA r : ~r.success)) = 1
           /\ Len(SelectSeq(bars, LAMBDA r : r.success)) = Len(Discovered) - 1
           /\ \A i \in 1..Len(bars) :
                 bars[i].success
                 => /\ UnitId(bars[i]) = Discovered[i]
                    /\ bars[i].count = Len(legacy_table(source, Discovered[i])[1].rows)

\* C7 witness: three discovered tables, the unparseable one failed, the two
\* others succeeded with 3 and 2 rows, written in more than one batch.
C7_Witness ==
    /\ C7_Case
    /\ args.batch_size = 2
    /\ Len(Discovered) = 3
    /\ LET bars == BarResults(results, args.market, TRUE)
       IN  /\ \E i \in 1..3 : ~bars[i].success /\ "table" \notin DOMAIN bars[i]
           /\ \E i \in 1..3 : bars[i].success /\ bars[i].count = 3 /\ bars[i].inserted = 3
           /\ \E i \in 1..3 : bars[i].success /\ bars[i].count = 2 /\ bars[i].inserted = 2

\* C8 (as claimed): no step of a dry-run invocation, from the construction of
\* the migrator to the report, changes the bar tables, the cache or the
\* instruments of the target store.
C8_DryRunZeroWrites ==
    [][(Running /\ args.dry_run) => UNCHANGED <<tables, cl_cache, cl_stock_info>>]_vars

\* the previous and the current invocation, one of them the dry run
Report(a, rs, p) == [args |-> a, results |-> rs, pc |-> p]
DryReport == IF args.dry_run THEN Report(args, results, pc) ELSE prev[1]
ExecReport == IF args.dry_run THEN prev[1] ELSE Report(args, results, pc)

\* both invocations of the same command line, with and without --dry-run, ended
BothEnded == pc # "shell" /\ Ended /\ prev # None

Allowed ==
    {Discovered[i] : i \in {j \in 1..Len(Discovered) :
        /\ ~HasFewerThan3Segments(Discovered[j])
        /\ \E k \in 1..Len(args.codes) :
              args.codes[k] = parse_table_info(Discovered[j])[1].code}}

\* the bar tables among the legacy tables the invocation queried for rows
BarReads == reads \ {"cl_stock_info_" \o args.market, "cl_cache"}

\* C10: with a non-empty code allow-list L, the bar units processed and
\* reported are exactly the discovered tables whose code, as parsed from the
\* table name, is in L; no other discovered table is read, written to the
\* target or listed in the report.
C10_CodeFilter ==
    (pc \in {"migrate_klines_table", "done", "raised"} /\ args.codes # << >>)
    => LET bars == BarResults(results, args.market, pc = "done")
           reported == {UnitId(bars[i]) : i \in 1..Len(bars)}
       IN  /\ reported \subseteq Allowed
           /\ BarReads \subseteq Allowed
           /\ DOMAIN tables \subseteq Allowed
           /\ pc = "done" => /\ reported = Allowed
                             /\ Len(bars) = Cardinality(Allowed)
                             /\ BarReads = Allowed

\* C10 witness: market a holds three tables, the allow-list names one code; the
\* execution reported and wrote that table alone.
C10_Witness ==
    /\ pc = "done"
    /\ ~args.dry_run
    /\ args.codes = <<"600000.SH">>
    /\ Len(Discovered) = 3
    /\ Len(results) = 3
    /\ results[2].success /\ results[2].table = "a_600000_SH_d" /\ results[2].inserted = 3
    /\ DOMAIN tables = {"a_600000_SH_d"}
    /\ "a_000001_SZ_d" \notin reads

\* C11 (as claimed): in every finished run, with or without a code allow-list,
\* each discovered table whose name has fewer than 3 segments is in the report
\* as a failed unit whose error text names it. Stated for a positive batch
\* size.
C11_UnparseableReported ==
    (pc = "done" /\ args.batch_size > 0)
    => \A i \in 1..Len(Discovered) :
          HasFewerThan3Segments(Discovered[i])
          => \E j \in 1..Len(results) :
                /\ ~results[j].success
                /\ get(results[j], "error", "") = klines_unparseable(Discovered[i]).error

\* C12 (as claimed): whatever the market, a finished invocation has processed
\* the cache unit and its report holds the cache outcome exactly once. Stated
\* for a positive batch size.
C12_CacheOnce ==
    (pc = "done" /\ args.batch_size > 0)
    => /\ "cl_cache" \in reads
       /\ Len(SelectSeq(results, LAMBDA r : UnitId(r) = "cl_cache")) = 1

\* C13 (as claimed): an execution that has processed every unit and whose
\* report holds a failed unit ends with a non-zero exit status. Stated for a
\* positive batch size.
C13_ExitSignal ==
    (/\ pc = "done" /\ ~args.dry_run /\ args.batch_size > 0
     /\ todo = << >> /\ unit = None
     /\ failed_results(results) # << >>)
    => exit_code # Some(0)

\* the sum of the counts of the entries of rs at the indices in I
RECURSIVE SumOfCounts(_, _)
SumOfCounts(rs, I) ==
    IF I = {} THEN 0
    ELSE LET i == CHOOSE i \in I : TRUE
         IN  get(rs[i], "count", 0) + SumOfCounts(rs, I \ {i})

\* the index in rs of its k-th failed entry
FailedIndex(rs, k) ==
    CHOOSE i \in 1..Len(rs) :
        ~rs[i].success /\ Cardinality({j \in 1..i : ~rs[j].success}) = k

\* C14: in every printed summary the success count is the number of successful
\* units, success count plus listed failures is the number of units, the
\* record total is the sum of the counts of the successful units only, and
\* every failed unit is listed, in order, with its own error text.
C14_ReportAggregation ==
    summary # None
    => LET s == summary[1]
           ok == {i \in 1..Len(results) : results[i].success}
       IN  /\ s.success_count = Cardinality(ok)
           /\ s.len_results = Len(results)
           /\ s.success_count + Len(s.failed) = Len(results)
           /\ s.total_records = SumOfCounts(results, ok)
           /\ \A k \in 1..Len(s.failed) :
                 /\ s.failed[k].error = results[FailedIndex(results, k)].error
                 /\ s.failed[k].table = UnitId(results[FailedIndex(results, k)])

\* C14 witness: a summary over five units, two of them failed with different
\* error texts, one successful unit without a count, five records in total.
C14_Witness ==
    /\ summary # None
    /\ summary[1].len_results = 5
    /\ summary[1].success_count = 3
    /\ summary[1].total_records = 5
    /\ Len(summary[1].failed) = 2
    /\ summary[1].failed[1].error # summary[1].failed[2].error
    /\ "count" \notin DOMAIN results[1]

\* ------------------------------------------------------------------------
\* Properties of the store under concurrent callers
\* ------------------------------------------------------------------------
\* some caller is between the delete and the insert of the method op on the
\* key or market x, which held data when the method began
Replacing(op, field, x) ==
    \E caller \in Callers :
        /\ at(caller, op, "insert")
        /\ inflight[caller][1][field] = x
        /\ inflight[caller][1].held

\* C15 (as claimed): a cache_get(k) that runs while cache_set replaces an
\* unexpired value of k never returns absent, and a stock_info_query(m) that
\* runs while stock_info_insert replaces a non-empty market m never returns
\* the empty intermediate state.
C15_ReplaceIsolation ==
    /\ (call.op = "cache_get" /\ Replacing("cache_set", "key", call.key))
       => ret # None
    /\ (call.op = "stock_info_query" /\ Replacing("stock_info_insert", "market", call.market))
       => ret # << >>

\* both callers have returned from a klines_insert of the same table that was
\* absent when each of them looked for it
BothFirstUse ==
    /\ \A caller \in Callers : at(caller, "klines_insert", "returned")
    /\ \A caller \in Callers : ~inflight[caller][1].existed
    /\ \A c1 \in Callers, c2 \in Callers :
          klines_table_name(inflight[c1][1].market, inflight[c1][1].stock_code,
                            inflight[c1][1].frequency)
          = klines_table_name(inflight[c2][1].market, inflight[c2][1].stock_code,
                              inflight[c2][1].frequency)

\* C16 (as claimed): when two callers insert non-empty batches for the same
\* table, absent at their first use, then after both have returned the table
\* holds every bar of both batches, whatever the interleaving.
C16_ConcurrentFirstUse ==
    BothFirstUse
    => LET f1 == inflight["c1"][1]
           f2 == inflight["c2"][1]
           rows == tables[klines_table_name(f1.market, f1.stock_code, f1.frequency)].rows
           bars == data_dict(f1.market, f1.klines) \o data_dict(f2.market, f2.klines)
       IN  /\ Len(rows) = Len(bars)
           /\ \A i \in 1..Len(bars) : \E j \in 1..Len(rows) : rows[j] = bars[i]

\* ------------------------------------------------------------------------
\* Properties of provisioning
\* ------------------------------------------------------------------------
\* C17 (as claimed): the step that constructs the store handle leaves the rows
\* of every bar table, of the cache and of the instruments the engine already
\* holds in place.
C17_ProvisioningKeepsState ==
    [][(pc = "main" /\ pc' = "migrate_stock_info")
       => /\ \A t \in DOMAIN tables :
                t \in DOMAIN tables' /\ tables'[t].rows = tables[t].rows
          /\ cl_cache' = cl_cache
          /\ cl_stock_info' = cl_stock_info]_vars

\* ------------------------------------------------------------------------
\* Table identifiers: construction and parsing
\* ------------------------------------------------------------------------
\* the choices of --market
AllMarkets == {"a", "hk", FUTURES, "us", "currency", "currency_spot", "fx", "ny_futures"}
\* codes with a dot, with an underscore in its place, and with neither
AllCodes == {"600000.SH", "600000_SH", "000001.SZ", "BTC", "BTC.USDT", "BTC_USDT", "00700"}
AllFrequencys == {"d", "30m"}

\* a caller builds the identifier of (market, stock_code, frequency)
build_table_name(market, stock_code, frequency) ==
    /\ call' = [op |-> "klines_table_name", market |-> market,
                stock_code |-> stock_code, frequency |-> frequency]
    /\ ret' = klines_table_name(market, stock_code, frequency)
    /\ UNCHANGED <<tables, cl_cache, cl_stock_info, now, migVars, inflight>>

\* the migrator parses the identifier that was just built
parse_built_name ==
    /\ call.op = "klines_table_name"
    /\ call' = [call EXCEPT !.op = "parse_table_info"]
    /\ ret' = parse_table_info(ret)
    /\ UNCHANGED <<tables, cl_cache, cl_stock_info, now, migVars, inflight>>

NextNames ==
    \/ \E market \in AllMarkets, stock_code \in AllCodes, frequency \in AllFrequencys :
          build_table_name(market, stock_code, frequency)
    \/ parse_built_name

SpecNames == Init /\ [][NextNames]_vars

\* C18 (as claimed): for the market and the frequency of an identifier, no
\* other code yields the same identifier.
C18_CollisionFree ==
    call.op = "klines_table_name"
    => \A stock_code \in AllCodes \ {call.stock_code} :
          klines_table_name(call.market, stock_code, call.frequency) # ret

\* C19 (as claimed): parsing the identifier built from (market, code,
\* frequency) yields that market, that code and that frequency.
C19_ParseInvertsBuild ==
    call.op = "parse_table_info"
    => ret = Some([market |-> call.market, code |-> call.stock_code,
                   frequency |-> call.frequency])

\* ------------------------------------------------------------------------
\* Properties of klines_insert on a table in use
\* ------------------------------------------------------------------------
\* C20: a klines_insert of a non-empty batch leaves the table with the rows it
\* held before (none when it did not exist) followed by one row for every bar
\* of the batch, whether or not a row with the same dt is already stored.
C20_InsertAppends ==
    [][(call'.op = "klines_insert" /\ call'.klines # << >>)
       => LET name == klines_table_name(call'.market, call'.stock_code, call'.frequency)
              stored == IF existsTable(tables, name) THEN tables[name].rows ELSE << >>
          IN  /\ existsTable(tables', name)
              /\ tables'[name].rows = stored \o data_dict(call'.market, call'.klines)]_vars

\* two sequential inserts of the same bar: the table holds it twice
C20_Witness ==
    /\ call.op = "klines_insert"
    /\ Len(call.klines) = 1
    /\ ~call.created
    /\ LET name == klines_table_name(call.market, call.stock_code, call.frequency)
       IN  /\ existsTable(tables, name)
           /\ Len(tables[name].rows) = 2
           /\ tables[name].rows[1] = tables[name].rows[2]

\* ------------------------------------------------------------------------
\* Properties of the read operations of the KLine store
\* ------------------------------------------------------------------------
\* C21: a klines_query of a table that does not exist returns the empty list,
\* creates no table and leaves the bar tables, the cache and the instruments
\* as they were.
C21_QueryAbsentTable ==
    [][(/\ call'.op = "klines_query"
        /\ ~existsTable(tables, klines_table_name(call'.market, call'.stock_code,
                                                  call'.frequency)))
       => /\ ret' = << >>
          /\ UNCHANGED <<tables, cl_cache, cl_stock_info>>]_vars

\* a query of an absent table returned the empty list while the table of the
\* other market holds rows and a cache entry and an instrument are stored
C21_Witness ==
    /\ call.op = "klines_query"
    /\ ~existsTable(tables, klines_table_name(call.market, call.stock_code, call.frequency))
    /\ ret = << >>
    /\ \E name \in DOMAIN tables : tables[name].rows # << >>
    /\ cl_cache # << >>
    /\ cl_stock_info # << >>

\* C22 (as claimed): query_klines_last_datetime returns the greatest dt of the
\* rows stored in the table, and None when the table does not exist or holds
\* no rows.
C22_LastTimestamp ==
    call.op = "query_klines_last_datetime"
    => LET name == klines_table_name(call.market, call.stock_code, call.frequency)
       IN  IF ~existsTable(tables, name) THEN ret = None
           ELSE IF tables[name].rows = << >> THEN ret = None
           ELSE /\ ret # None
                /\ \E i \in 1..Len(tables[name].rows) : tables[name].rows[i].dt = ret[1]
                /\ \A i \in 1..Len(tables[name].rows) : tables[name].rows[i].dt <= ret[1]

\* the rows a query with the bounds start_date and end_date selects from the
\* table of the last call
Filtered(start_date, end_date) ==
    LET name == klines_table_name(call.market, call.stock_code, call.frequency)
    IN  IF existsTable(tables, name)
        THEN SelectSeq(tables[name].rows, LAMBDA r : where_clause(r, start_date, end_date))
        ELSE << >>

\* r is sorted by dt in the order asked for
SortedBy(r, order) ==
    \A i \in 1..Len(r) - 1 :
        IF order = "asc" THEN r[i].dt <= r[i + 1].dt ELSE r[i].dt >= r[i + 1].dt

\* r holds n rows of rows, each taken once, and no row left out comes before a
\* row of r in the order asked for
FirstOf(r, rows, n, order) ==
    /\ Len(r) = n
    /\ \E p \in [1..n -> 1..Len(rows)] :
          /\ \A i \in 1..n, j \in 1..n : p[i] = p[j] => i = j
          /\ \A i \in 1..n : Base(r[i]) = Base(rows[p[i]])
          /\ \A j \in 1..Len(rows) :
                (\A i \in 1..n : p[i] # j)
                => \A i \in 1..n : IF order = "asc" THEN r[i].dt <= rows[j].dt
                                   ELSE r[i].dt >= rows[j].dt

\* C23 (as claimed): what klines_query returns for an integer limit L >= 0 and
\* an order holds at most L bars, and they are the first L (or all, when fewer
\* are selected) of the selected rows sorted by dt in that order.
C23_LimitOrder ==
    call.op = "klines_query"
    => \A start_date \in Dates, end_date \in Dates, limit \in Limits \ {None}, order \in Orders :
          ret \in klines_query_result(tables, call.market, call.stock_code, call.frequency,
                                      start_date, end_date, limit, order)
          => LET rows == Filtered(start_date, end_date)
                 n == IF limit[1] < Len(rows) THEN limit[1] ELSE Len(rows)
             IN  /\ Len(ret) <= limit[1]
                 /\ SortedBy(ret, order)
                 /\ FirstOf(ret, rows, n, order)

\* the calendar day of a stored timestamp
DayOf(dt) == dt \div TicksPerDay

\* the day of row r lies between the days of the bounds that are given
WithinDays(r, start_date, end_date) ==
    /\ start_date # None => DayOf(start_date[1]) <= DayOf(r.dt)
    /\ end_date # None => DayOf(r.dt) <= DayOf(end_date[1])

\* C24 (as claimed): what klines_query returns for the bounds start_date and
\* end_date, without a limit, is exactly the stored bars whose calendar day
\* lies between the day of start_date and the day of end_date inclusive.
C24_DateBounds ==
    call.op = "klines_query"
    => \A start_date \in Dates, end_date \in Dates, order \in Orders :
          ret \in klines_query_result(tables, call.market, call.stock_code, call.frequency,
                                      start_date, end_date, None, order)
          => LET within == SelectSeq(Filtered(None, None),
                                     LAMBDA r : WithinDays(r, start_date, end_date))
             IN  FirstOf(ret, within, Len(within), order)

\* ------------------------------------------------------------------------
\* The store in use: bar tables next to a cache entry and instruments
\* ------------------------------------------------------------------------
NextStore ==
    \/ \E market \in Markets, stock_code \in Codes, frequency \in Frequencys :
          \/ \E klines \in ConcKLineLists(stock_code, frequency) :
                klines_insert(market, stock_code, frequency, klines)
          \/ \E start_date \in Dates, end_date \in Dates, limit \in Limits, order \in Orders :
                klines_query(market, stock_code, frequency, start_date, end_date, limit, order)
          \/ query_klines_last_datetime(market, stock_code, frequency)
          \/ delete_klines(market, stock_code, frequency)
    \/ \E key \in ConcKeys : cache_set(key, "v1", 0)
    \/ \E stock_infos \in ConcInfoLists : stock_info_insert("hk", stock_infos)

SpecStore == Init /\ [][NextStore]_vars

\* C25: after delete_klines the table is absent, so that a query of it returns
\* the empty list and its last timestamp is None; on an absent table the call
\* changes nothing; it returns without error, and in both cases every other
\* table, the cache and the instruments are unchanged.
C25_Drop ==
    [][call'.op = "delete_klines"
       => LET name == klines_table_name(call'.market, call'.stock_code, call'.frequency)
          IN  /\ ~existsTable(tables', name)
              /\ klines_query_result(tables', call'.market, call'.stock_code,
                                     call'.frequency, None, None, None, "asc") = {<< >>}
              /\ query_klines_last_datetime_result(tables', call'.market, call'.stock_code,
                                                   call'.frequency) = None
              /\ ~existsTable(tables, name) => tables' = tables
              /\ ret' = None
              /\ DOMAIN tables' = DOMAIN tables \ {name}
              /\ \A other \in DOMAIN tables \ {name} : tables'[other] = tables[other]
              /\ cl_cache' = cl_cache
              /\ cl_stock_info' = cl_stock_info]_vars

\* a table with rows was dropped while another table, a cache entry and an
\* instrument are stored
C25_Witness ==
    /\ call.op = "delete_klines"
    /\ ~existsTable(tables, klines_table_name(call.market, call.stock_code, call.frequency))
    /\ \E other \in DOMAIN tables : tables[other].rows # << >>
    /\ cl_cache # << >>
    /\ cl_stock_info # << >>

\* ------------------------------------------------------------------------
\* Properties of the reference store and of the cache in sequential use
\* ------------------------------------------------------------------------
\* row is stored for the market, and for the code when one is given
Matches(row, market, code) ==
    /\ row.market = market
    /\ code # None => row.code = code[1]

C26_WitnessNone ==
    /\ call.op = "stock_info_query"
    /\ call.code # None
    /\ ret = << >>
    /\ \E j \in 1..Len(cl_stock_info) : cl_stock_info[j].market = call.market

\* the entries the cache rows hold for key
EntriesOf(rows, key) == SelectSeq(rows, LAMBDA r : r.k = key)

\* C27: after every cache_set the cache holds exactly one entry for the key,
\* with the value and the expiry of that call, the entries of every other key
\* are as before, and no key has more than one entry.
C27_LastWriteWins ==
    [][call'.op = "cache_set"
       => /\ EntriesOf(cl_cache', call'.key)
                = <<[k |-> call'.key, v |-> call'.value, expire |-> call'.expire]>>
          /\ \A key \in Keys \ {call'.key} :
                /\ EntriesOf(cl_cache', key) = EntriesOf(cl_cache, key)
                /\ Len(EntriesOf(cl_cache', key)) <= 1]_vars

\* the last of several sets: both keys are stored, the key of the call with
\* the value and the expiry of the call
C27_Witness ==
    /\ call.op = "cache_set"
    /\ call.value = "v2"
    /\ call.expire = 2
    /\ Len(cl_cache) = 2
    /\ cl_cache[1].k # call.key
    /\ cl_cache[2] = [k |-> call.key, v |-> "v2", expire |-> 2]
    /\ now > 0

\* ------------------------------------------------------------------------
\* Properties of the write loop of the migration
\* ------------------------------------------------------------------------
\* the rows of the target table of (market, code, frequency), none when absent
TargetRows(market, code, frequency) ==
    IF existsTable(tables, klines_table_name(market, code, frequency))
    THEN tables[klines_table_name(market, code, frequency)].rows
    ELSE << >>

\* the timestamps of the legacy table called name, ascending
SourceDts(name) ==
    LET rows == read_sql_ordered(legacy_table(source, name)[1].rows)
    IN  [i \in 1..Len(rows) |-> rows[i].dt]

\* C28 (as claimed): in an execution, with whatever integer batch size was
\* given, a bar unit with n > 0 rows that is reported successful reports
\* inserted = count = n and its target table holds its n source rows in source
\* timestamp order; and while a unit is being written its progress counter is
\* the number of rows written so far.
C28_BatchedWrite ==
    (Running /\ ~args.dry_run) \/ (pc = "done" /\ ~args.dry_run)
    => /\ \A j \in 1..Len(results) :
             LET r == results[j]
             IN  (r.success /\ {"inserted", "frequency"} \subseteq DOMAIN r /\ r.count > 0)
                 => /\ r.inserted = r.count
                    /\ r.count = Len(SourceDts(r.table))
                    /\ LET rows == TargetRows(r.market, r.code, r.frequency)
                       IN  [i \in 1..Len(rows) |-> rows[i].dt] = SourceDts(r.table)
       /\ unit # None
          => LET u == unit[1]
             IN  /\ u.inserted_count = Len(TargetRows(u.info.market, u.info.code,
                                                      u.info.frequency))
                 /\ u.inserted_count <= Len(u.klines)

\* the rows stored for market
RowsOf(rows, market) == SelectSeq(rows, LAMBDA r : r.market = market)

\* C29: stock_info_insert(m, xs) leaves the instruments of every market other
\* than m as they were, and with an empty xs it leaves the instruments of m,
\* and so the whole table, as they were.
C29_ReplaceFrame ==
    [][call'.op = "stock_info_insert"
       => /\ \A market \in InfoMarkets \ {call'.market} :
                RowsOf(cl_stock_info', market) = RowsOf(cl_stock_info, market)
          /\ call'.stock_infos = << >> => cl_stock_info' = cl_stock_info]_vars

\* a market was replaced while the other market holds two instruments
C29_Witness ==
    /\ call.op = "stock_info_insert"
    /\ call.stock_infos # << >>
    /\ call.deleted > 0
    /\ \E market \in InfoMarkets \ {call.market} : Len(RowsOf(cl_stock_info, market)) = 2

\* an insert with an empty list on a market that holds instruments
C29_WitnessEmpty ==
    /\ call.op = "stock_info_insert"
    /\ call.stock_infos = << >>
    /\ RowsOf(cl_stock_info, call.market) # << >>

\* ------------------------------------------------------------------------
\* Properties of the cache under concurrent callers
\* ------------------------------------------------------------------------
\* both callers have returned from a cache_set of the same key
BothSet ==
    /\ \A caller \in Callers : at(caller, "cache_set", "returned")
    /\ \A c1 \in Callers, c2 \in Callers : inflight[c1][1].key = inflight[c2][1].key

\* C30 (as claimed): when two callers have run cache_set on the same key, in
\* whatever interleaving of their delete and insert statements, the cache
\* holds exactly one entry for the key, with one of the two values written.
C30_ConcurrentSetUnique ==
    BothSet
    => LET entries == EntriesOf(cl_cache, inflight["c1"][1].key)
       IN  /\ Len(entries) = 1
           /\ \E caller \in Callers : entries[1].v = inflight[caller][1].value

\* ------------------------------------------------------------------------
\* Properties of discovery and of the names the migration writes to
\* ------------------------------------------------------------------------
StartsWith(s, prefix) == Len(s) >= Len(prefix) /\ SubSeq(s, 1, Len(prefix)) = prefix

\* the markets of the enumerated set whose name, followed by "_", begins name
MarketsOf(name) == {m \in AllMarkets : StartsWith(name, m \o "_")}

\* name is a table of market m and of no market with a longer name
BelongsTo(name, m) ==
    /\ m \in MarketsOf(name)
    /\ \A other \in MarketsOf(name) : Len(other) <= Len(m)

\* C31 (as claimed): every legacy bar table an invocation for market M queries
\* for rows is a table of market M, and so is every table it writes in the
\* target; an invocation for market currency neither reads nor writes a table
\* of market currency_spot.
C31_DiscoveryInsideMarket ==
    (pc \in {"migrate_klines_table", "done", "raised"} /\ args.batch_size > 0)
    => /\ \A name \in BarReads : BelongsTo(name, args.market)
       /\ \A name \in DOMAIN tables : BelongsTo(name, args.market)

\* legacy table names of three and more segments without a dot, among them
\* names with an empty segment and with a market of two segments
DotFreeNames ==
    {"a_600000_SH_d", "a_x_d", "a__d", "hk_00700_30m", "currency_spot_ETH_d",
     "ny_futures_CL_1m", "a_b_c_d_e"}

\* the identifier klines_insert builds from what parse_table_info returns for name
TargetOf(name) ==
    LET info == parse_table_info(name)[1]
    IN  klines_table_name(info.market, info.code, info.frequency)

\* C32: for a legacy table name of at least 3 segments and no dot, the target
\* table identifier an execution writes the unit's rows to, klines_table_name
\* of the parsed market, code and frequency, is the legacy table name.
C32_NamePreserved ==
    /\ unit # None
       => klines_table_name(unit[1].info.market, unit[1].info.code, unit[1].info.frequency)
             = unit[1].table
    /\ (pc \in {"migrate_klines_table", "done"} /\ ~args.dry_run)
       => /\ \A name \in DOMAIN tables : name \in BarReads
          /\ \A j \in 1..Len(results) :
                (results[j].success /\ {"inserted", "frequency"} \subseteq DOMAIN results[j]
                    /\ results[j].inserted > 0)
                => existsTable(tables, results[j].table)
    /\ \A name \in DotFreeNames :
          /\ parse_table_info(name) # None
          /\ TargetOf(name) = name

\* an execution wrote the rows of a legacy table whose code has two segments
\* to the table of the same name
C32_Witness ==
    /\ pc = "done"
    /\ ~args.dry_run
    /\ "a_600000_SH_d" \in BarReads
    /\ existsTable(tables, "a_600000_SH_d")
    /\ Len(tables["a_600000_SH_d"].rows) = 3
    /\ \E j \in 1..Len(results) :
          /\ UnitId(results[j]) = "a_600000_SH_d"
          /\ results[j].success
          /\ results[j].code = "600000.SH"

\* ------------------------------------------------------------------------
\* Properties of the failures of a bar unit
\* ------------------------------------------------------------------------
\* the rows of the legacy table called name as the unit reads them
SourceRowsOf(name) == read_sql_ordered(legacy_table(source, name)[1].rows)

\* the legacy table called name can be read and parsed, and the conversion of
\* one of its rows fails
HasBadRow(name) ==
    /\ parse_table_info(name) # None
    /\ legacy_table(source, name)[1].readable
    /\ \E i \in 1..Len(SourceRowsOf(name)) :
          ~convertible(parse_table_info(name)[1].market, SourceRowsOf(name)[i])

\* C33: in an execution, a bar unit of which the conversion of a row fails is
\* reported failed and the target holds no row of that unit, wherever the bad
\* row stands and whatever the batch size is.
C33_ConversionBeforeWrite ==
    (pc \in {"migrate_klines_table", "done"} /\ ~args.dry_run)
    => \A j \in 1..Len(results) :
          LET name == UnitId(results[j])
          IN  (j > 1 /\ name \in {Discovered[i] : i \in 1..Len(Discovered)} /\ HasBadRow(name))
              => /\ ~results[j].success
                 /\ results[j].error = "conversion error"
                 /\ name \notin DOMAIN tables
                 /\ TargetRows(parse_table_info(name)[1].market, parse_table_info(name)[1].code,
                               parse_table_info(name)[1].frequency) = << >>

\* an execution with batch size 1 reported a unit failed whose first row
\* converts and whose last row does not, wrote nothing of it, and wrote the
\* three rows of another unit
C33_Witness ==
    /\ pc = "done"
    /\ ~args.dry_run
    /\ args.batch_size = 1
    /\ HasBadRow("a_000001_SZ_d")
    /\ convertible("a", SourceRowsOf("a_000001_SZ_d")[1])
    /\ \E j \in 1..Len(results) :
          UnitId(results[j]) = "a_000001_SZ_d" /\ ~results[j].success
    /\ "a_000001_SZ_d" \notin DOMAIN tables
    /\ Len(TargetRows("a", "600000.SH", "d")) = 3

\* the timestamps of the first n rows of rows
DtsOfFirst(rows, n) == [i \in 1..n |-> rows[i].dt]

Min(a, b) == IF a < b THEN a ELSE b

\* C34: in an execution, while a bar unit is written the target table holds
\* exactly the rows of the batches accepted so far; a unit whose write the
\* engine rejected after j accepted batches is reported failed with the error
\* text, and from then on its target table holds exactly the rows of its first
\* j batches: no later batch is written and nothing is rolled back.
C34_WriteFailurePrefix ==
    (pc \in {"migrate_klines_table", "done"} /\ ~args.dry_run /\ args.batch_size > 0)
    => /\ unit # None
          => LET u == unit[1]
                 rows == TargetRows(u.info.market, u.info.code, u.info.frequency)
             IN  /\ u.i % args.batch_size = 0
                 /\ u.inserted_count = Min(u.i, Len(u.klines))
                 /\ Len(rows) = u.inserted_count
                 /\ DtsOfFirst(rows, Len(rows)) = DtsOfFirst(u.klines, u.inserted_count)
       /\ \A j \in 1..Len(results) :
             (~results[j].success /\ get(results[j], "error", "") = "engine error")
             => LET name == results[j].table
                    info == parse_table_info(name)[1]
                    rows == TargetRows(info.market, info.code, info.frequency)
                IN  /\ Len(rows) < Len(SourceDts(name))
                    /\ Len(rows) % args.batch_size = 0
                    /\ DtsOfFirst(rows, Len(rows)) = SubSeq(SourceDts(name), 1, Len(rows))

\* an execution with batch size 1 ended after the engine had accepted one
\* batch of a unit of three rows and rejected the second: the unit is reported
\* failed, its table holds the first row, and a later unit was written in full
C34_Witness ==
    /\ pc = "done"
    /\ ~args.dry_run
    /\ args.batch_size = 1
    /\ \E j \in 1..Len(results) :
          /\ UnitId(results[j]) = "a_600000_SH_d"
          /\ ~results[j].success
          /\ results[j].error = "engine error"
    /\ Len(TargetRows("a", "600000.SH", "d")) = 1
    /\ Len(TargetRows("a", "000001.SZ", "d")) = 2

\* ------------------------------------------------------------------------
\* Exchange adapter
\* ------------------------------------------------------------------------
\* the parameters of DolphinDB.klines_query and those without a default
klines_query_parameters ==
    {"market", "stock_code", "frequency", "start_date", "end_date", "limit", "order"}
klines_query_required == {"market", "stock_code", "frequency"}

\* the limit ExchangeDolphinDB.klines passes
AdapterLimit == 10000

\* the dates a caller passes to ExchangeDolphinDB.klines: None or a day
AdapterDays == {None, Some(0), Some(1)}

\* datetime.strptime(date, "%Y-%m-%d"): the first instant of the day
strptime_date(day) == day * TicksPerDay

\* the keyword arguments of the klines_query call in ExchangeDolphinDB.klines
klines_keywords(market_type, code, frequency, start_date, end_date) ==
    [market |-> market_type, code |-> code, frequency |-> frequency,
     start_date |-> IF start_date # None THEN Some(strptime_date(start_date[1])) ELSE None,
     end_date |-> IF end_date # None THEN Some(strptime_date(end_date[1])) ELSE None,
     limit |-> Some(AdapterLimit), order |-> "asc"]

\* whether Python can bind the keywords to the parameters: an unexpected
\* keyword or a missing required parameter raises TypeError
binds(keywords, parameters, required) ==
    /\ DOMAIN keywords \subseteq parameters
    /\ required \subseteq DOMAIN keywords

\* the rows of the frame built from the KLine objects, before the sort
frame_rows(klines) ==
    [i \in 1..Len(klines) |->
        LET k == klines[i]
            row == [code |-> k.code, date |-> k.dt, open |-> k.o, close |-> k.c,
                    high |-> k.h, low |-> k.l, volume |-> k.v, amount |-> getattr(k, "a", 0)]
        IN  IF "p" \in DOMAIN k
            THEN [n \in DOMAIN row \cup {"position"} |->
                     IF n = "position" THEN k.p ELSE row[n]]
            ELSE row]

\* df.sort_index(): the arrangements of the frame's rows sorted by date
sort_index(rows) ==
    LET n == Len(rows)
        arranged == {[i \in 1..n |-> rows[p[i]]] : p \in Permutations(1..n)}
    IN  {f \in arranged : \A i \in 1..n - 1 : f[i].date <= f[i + 1].date}

\* every frame ExchangeDolphinDB.klines can return on the engine state tbls;
\* the empty frame pd.DataFrame() is << >>
ExchangeDolphinDB_klines_result(tbls, market_type, code, frequency, start_date, end_date) ==
    LET keywords == klines_keywords(market_type, code, frequency, start_date, end_date)
    IN  IF ~binds(keywords, klines_query_parameters, klines_query_required)
        THEN {<< >>}
        ELSE UNION {sort_index(frame_rows(klines)) :
                       klines \in klines_query_result(tbls, keywords.market,
                                     keywords.stock_code, keywords.frequency,
                                     keywords.start_date, keywords.end_date,
                                     keywords.limit, keywords.order)}

\* ExchangeDolphinDB.klines of the adapter whose market_type() is market_type
ExchangeDolphinDB_klines(market_type, code, frequency, start_date, end_date) ==
    /\ ret' \in ExchangeDolphinDB_klines_result(tables, market_type, code, frequency,
                                                start_date, end_date)
    /\ call' = [op |-> "ExchangeDolphinDB.klines", market_type |-> market_type,
                code |-> code, frequency |-> frequency,
                start_date |-> start_date, end_date |-> end_date]
    /\ UNCHANGED <<tables, cl_cache, cl_stock_info, now, migVars, inflight>>

NextExchange ==
    \E market \in Markets, stock_code \in Codes, frequency \in Frequencys :
        \/ \E klines \in KLineLists(stock_code, frequency) :
              klines_insert(market, stock_code, frequency, klines)
        \/ \E start_date \in AdapterDays, end_date \in AdapterDays :
              ExchangeDolphinDB_klines(market, stock_code, frequency, start_date, end_date)

SpecExchange == Init /\ [][NextExchange]_vars

\* C35 (as claimed): when the store holds bars for (market_type(), code,
\* frequency), ExchangeDolphinDB.klines(code, frequency) without dates returns
\* a frame that is not empty, holds one row for each of those bars and is
\* sorted ascending by date.
C35_AdapterServesBars ==
    (/\ call.op = "ExchangeDolphinDB.klines"
     /\ call.start_date = None /\ call.end_date = None
     /\ TargetRows(call.market_type, call.code, call.frequency) # << >>)
    => LET rows == TargetRows(call.market_type, call.code, call.frequency)
       IN  /\ ret # << >>
           /\ Len(ret) = Len(rows)
           /\ \A i \in 1..Len(rows) :
                 \E j \in 1..Len(ret) : ret[j].date = rows[i].dt /\ ret[j].open = rows[i].o
           /\ \A j \in 1..Len(ret) - 1 : ret[j].date <= ret[j + 1].date

====
